---- MODULE Spec2Model ----
(***************************************************************************)
(* A model of pansat.download.providers: the generic file queries of       *)
(* DataProvider (preceding/following file, files in a time range, file by   *)
(* date), written against the abstract day listing get_files(year, day),    *)
(* and the cached FTP day listing of IcareProvider.                         *)
(*                                                                         *)
(* Time is counted in ticks; a calendar day has TicksPerDay ticks, a month  *)
(* DaysPerMonth days and a year MonthsPerYear months.  A datetime is the    *)
(* number of ticks since the start of year 0.  A filename is a record that  *)
(* carries the timestamp the product decodes from it and its extension.     *)
(***************************************************************************)
EXTENDS Integers, Sequences, FiniteSets, TLC

TicksPerDay == 3
NDays == 3
DaysPerMonth == 2
MonthsPerYear == 2
MaxFiles == 3
MaxTrips == 2

DaysPerYear == DaysPerMonth * MonthsPerYear

\* The archive window: NDays consecutive days that contain a change of year.
FirstDay == DaysPerYear - 2
Days == FirstDay..(FirstDay + NDays - 1)
Times == (FirstDay * TicksPerDay)..((FirstDay + NDays) * TicksPerDay - 1)

\* datetime fields: t.year and int(t.strftime("%j"))
DayOf(t) == t \div TicksPerDay
Year(t) == DayOf(t) \div DaysPerYear
JulianDay(t) == (DayOf(t) % DaysPerYear) + 1

\* timedelta(days=1)
dt == TicksPerDay

DayKey(d) == <<d \div DaysPerYear, (d % DaysPerYear) + 1>>
DayKeys == {DayKey(d) : d \in Days}
TimesOfDay(d) == (d * TicksPerDay)..((d + 1) * TicksPerDay - 1)

Name(t, e) == [date |-> t, ext |-> e]
\* product.name_to_date(filename)
name_to_date(f) == f.date

\* dirs:   what get_files has to offer, by (year, day of year): no listing, or
\*         the day's files in ascending order of timestamp (one file per
\*         timestamp)
\* pc, op, arg, res: whether a call has just completed, which one, its
\*         arguments and its outcome
\* remote: the directories of the FTP server, by path
\* cache:  IcareProvider.cache, by path
\* trips:  the FTP sessions opened so far on behalf of each path
VARIABLES dirs, pc, op, arg, res, remote, cache, trips

vars == <<dirs, pc, op, arg, res, remote, cache, trips>>

(***************************************************************************)
(* Helpers on sequences.                                                    *)
(***************************************************************************)
Range(s) == {s[i] : i \in 1..Len(s)}

\* The increasing sequence of the elements of a finite set of integers.
RECURSIVE SortedSeq(_)
SortedSeq(S) ==
    IF S = {} THEN <<>>
    ELSE LET m == CHOOSE x \in S : \A y \in S : x <= y
         IN <<m>> \o SortedSeq(S \ {m})

\* list.index(x), 1-based; the caller checks membership (ValueError otherwise)
Index(s, x) == CHOOSE i \in 1..Len(s) : s[i] = x /\ \A j \in 1..(i - 1) : s[j] /= x

Last(s) == s[Len(s)]

(***************************************************************************)
(* Outcomes of a call: a status ("ok" or the exception), the value (a       *)
(* sequence of filenames; a single file is a one-element sequence), the     *)
(* day listings requested, in order, and for a range query the entries      *)
(* selected by the loop, what became of the trailing lookup ("none": not    *)
(* attempted, "appended", "swallowed": attempted and failed) and the step   *)
(* an exception came from ("loop", "prepend", "flag", "append").            *)
(***************************************************************************)
Outcome(s, v, c) == [status |-> s, value |-> v, calls |-> c,
                     selected |-> <<>>, trailing |-> "none", at |-> ""]
Return(v, c) == Outcome("ok", v, c)
Raise(e, c) == Outcome(e, <<>>, c)

NoArg == [t0 |-> 0, t1 |-> 0, inclusive |-> FALSE, f |-> Name(0, "hdf"),
          year |-> 0, day |-> 0]
NoRes == Outcome("none", <<>>, <<>>)

(***************************************************************************)
(* DataProvider.get_files: the abstract day listing.  A day whose listing   *)
(* cannot be produced (no such remote directory) raises.                    *)
(***************************************************************************)
get_files(year, day) ==
    IF <<year, day>> \in DOMAIN dirs /\ dirs[<<year, day>>].exists
    THEN [ok |-> TRUE, files |-> dirs[<<year, day>>].files]
    ELSE [ok |-> FALSE, files |-> <<>>]

\* "t_p = t - dt" of get_preceeding_file
preceeding_day_same(t) == t

preceeding_day(t) == t - dt

\* "t_p = t + dt" of get_following_file
following_day_skip(t) == t + (2 * dt)

following_day(t) == t + dt

get_preceeding_file(filename) ==
    LET t == name_to_date(filename)
        c1 == <<<<Year(t), JulianDay(t)>>>>
        r1 == get_files(Year(t), JulianDay(t))
    IN  IF ~r1.ok THEN Raise("ListingError", c1)
        ELSE IF filename \notin Range(r1.files) THEN Raise("ValueError", c1)
        ELSE LET i == Index(r1.files, filename)
                 t_p == preceeding_day(t)
                 c2 == c1 \o <<<<Year(t_p), JulianDay(t_p)>>>>
                 r2 == get_files(Year(t_p), JulianDay(t_p))
             IN  IF i = 1
                 THEN IF ~r2.ok THEN Raise("ListingError", c2)
                      ELSE IF r2.files = <<>> THEN Raise("IndexError", c2)
                      ELSE Return(<<Last(r2.files)>>, c2)
                 ELSE Return(<<r1.files[i - 1]>>, c1)

get_following_file(filename) ==
    LET t == name_to_date(filename)
        c1 == <<<<Year(t), JulianDay(t)>>>>
        r1 == get_files(Year(t), JulianDay(t))
    IN  IF ~r1.ok THEN Raise("ListingError", c1)
        ELSE IF filename \notin Range(r1.files) THEN Raise("ValueError", c1)
        ELSE LET i == Index(r1.files, filename)
                 t_p == following_day(t)
                 c2 == c1 \o <<<<Year(t_p), JulianDay(t_p)>>>>
                 r2 == get_files(Year(t_p), JulianDay(t_p))
             IN  IF i = Len(r1.files)
                 THEN IF ~r2.ok THEN Raise("ListingError", c2)
                      ELSE IF r2.files = <<>> THEN Raise("IndexError", c2)
                      ELSE Return(<<r2.files[1]>>, c2)
                 ELSE Return(<<r1.files[i + 1]>>, c1)

(***************************************************************************)
(* DataProvider.get_files_in_range.                                         *)
(***************************************************************************)
\* pos0: the file starts at or after t0
pos0(fs, t0) == [i \in 1..Len(fs) |-> name_to_date(fs[i]) - t0 >= 0]

\* pos1: the file starts after t1
pos1(fs, t1) == [i \in 1..Len(fs) |-> name_to_date(fs[i]) - t1 > 0]

\* inds: the positions of fs with p0 and not p1, in listing order
inds_unbounded(fs, t0, t1) ==
    SortedSeq({i \in 1..Len(fs) : pos0(fs, t0)[i]})

inds(fs, t0, t1) ==
    SortedSeq({i \in 1..Len(fs) : pos0(fs, t0)[i] /\ ~pos1(fs, t1)[i]})

\* The loop over the days: the files selected so far, the listings requested
\* so far, and pos1 as the last iteration left it.
RECURSIVE RangeLoop(_, _, _, _, _)
RangeLoop(t, t0, t1, files, calls) ==
    LET c == calls \o <<<<Year(t), JulianDay(t)>>>>
        r == get_files(Year(t), JulianDay(t))
        fs == r.files
        sel == inds(fs, t0, t1)
        more == files \o [k \in 1..Len(sel) |-> fs[sel[k]]]
    IN  IF ~r.ok THEN [ok |-> FALSE, files |-> files, calls |-> c, pos1 |-> <<>>]
        ELSE IF t1 - (t + dt) > 0 THEN RangeLoop(t + dt, t0, t1, more, c)
        ELSE [ok |-> TRUE, files |-> more, calls |-> c, pos1 |-> pos1(fs, t1)]

\* "not pos1[-1] and not files == []", for a non-empty pos1
trailing_flag_inverted(p1, files) == Last(p1) /\ files /= <<>>

trailing_flag(p1, files) == ~Last(p1) /\ files /= <<>>

\* "files = [f_p] + files"
prepend_behind(f_p, files) == files \o f_p

prepend(f_p, files) == f_p \o files

\* "try: files += [self.get_following_file(files[-1])] / except: pass"
try_append_raising(files, calls, f_n) ==
    IF f_n.status = "ok"
    THEN [Return(files \o f_n.value, calls \o f_n.calls) EXCEPT !.trailing = "appended"]
    ELSE [Raise(f_n.status, calls \o f_n.calls) EXCEPT !.at = "append"]

try_append(files, calls, f_n) ==
    IF f_n.status = "ok"
    THEN [Return(files \o f_n.value, calls \o f_n.calls) EXCEPT !.trailing = "appended"]
    ELSE [Return(files, calls \o f_n.calls) EXCEPT !.trailing = "swallowed"]

\* The precondition t0 < t1 is the caller's: the loop body runs at least once.
get_files_in_range(t0, t1, t0_inclusive) ==
    LET loop == RangeLoop(t0, t0, t1, <<>>, <<>>)
        sel == loop.files
        f_p == get_preceeding_file(sel[1])
        files == IF t0_inclusive THEN prepend(f_p.value, sel) ELSE sel
        c1 == IF t0_inclusive THEN loop.calls \o f_p.calls ELSE loop.calls
    IN  IF ~loop.ok
        THEN [Raise("ListingError", loop.calls) EXCEPT !.at = "loop"]
        ELSE IF t0_inclusive /\ sel = <<>>
        THEN [Raise("IndexError", loop.calls) EXCEPT !.at = "prepend"]
        ELSE IF t0_inclusive /\ f_p.status /= "ok"
        THEN [Raise(f_p.status, c1) EXCEPT !.at = "prepend", !.selected = sel]
        ELSE IF loop.pos1 = <<>>
        THEN [Raise("IndexError", c1) EXCEPT !.at = "flag", !.selected = sel]
        ELSE IF trailing_flag(loop.pos1, files)
        THEN [try_append(files, c1, get_following_file(Last(files)))
                  EXCEPT !.selected = sel]
        ELSE [Return(files, c1) EXCEPT !.selected = sel]

(***************************************************************************)
(* DataProvider.get_file_by_date.                                           *)
(***************************************************************************)
\* np.argsort: the positions of dts in ascending order of value
RECURSIVE argsort_from(_, _)
argsort_from(dts, left) ==
    IF left = {} THEN <<>>
    ELSE LET m == CHOOSE i \in left :
                     \A j \in left : dts[i] < dts[j] \/ (dts[i] = dts[j] /\ i <= j)
         IN <<m>> \o argsort_from(dts, left \ {m})

argsort(dts) == argsort_from(dts, 1..Len(dts))

\* np.where(dts[inds] < 0.0)[0]: the sorted positions whose delta is negative
before_inclusive(dts, ix) == {k \in 1..Len(ix) : dts[ix[k]] <= 0}

before(dts, ix) == {k \in 1..Len(ix) : dts[ix[k]] < 0}

Max(S) == CHOOSE x \in S : \A y \in S : y <= x

\* self.get_files(year, day)[-1:]
LastOnly(s) == IF s = <<>> THEN <<>> ELSE <<Last(s)>>

get_file_by_date(t) ==
    LET t_p == t - dt
        cp == <<<<Year(t_p), JulianDay(t_p)>>>>
        rp == get_files(Year(t_p), JulianDay(t_p))
        c == cp \o <<<<Year(t), JulianDay(t)>>>>
        r == get_files(Year(t), JulianDay(t))
        files == LastOnly(rp.files) \o r.files
        dts == [i \in 1..Len(files) |-> name_to_date(files[i]) - t]
        ix == argsort(dts)
        indices == before(dts, ix)
        ind == IF indices = {} THEN Len(dts) ELSE ix[Max(indices)]
    IN  IF ~rp.ok THEN Raise("ListingError", cp)
        ELSE IF ~r.ok THEN Raise("ListingError", c)
        ELSE IF files = <<>> THEN Raise("IndexError", c)
        ELSE Return(<<files[ind]>>, c)

(***************************************************************************)
(* IcareProvider: the day listing over FTP, cached by remote path.          *)
(***************************************************************************)
\* datetime.strptime(str(year) + day_str, "%Y%j") and strftime("%Y_%m_%d")
ValidJulianDay(day) == day \in 1..DaysPerYear
Month(day) == ((day - 1) \div DaysPerMonth) + 1
DayOfMonth(day) == ((day - 1) % DaysPerMonth) + 1

\* os.path.join(self.product_path, str(year), date.strftime("%Y_%m_%d"))
Path(year, day) == <<year, <<year, Month(day), DayOfMonth(day)>>>>

\* The remote directories the model follows: the last day of year 0 and the
\* first day of year 1.
IcareKeys == {<<0, DaysPerYear>>, <<1, 1>>}
IcarePaths == {Path(k[1], k[2]) : k \in IcareKeys}

\* What the server holds under a path over time: the directory is created
\* empty and files are uploaded to it one after the other.
Uploads(p) ==
    LET a == ((p[1] * DaysPerYear) + ((p[2][2] - 1) * DaysPerMonth) + (p[2][3] - 1))
                 * TicksPerDay
        b == a + TicksPerDay - 1
    IN  <<Name(a, "hdf"), Name(a, "txt"), Name(b, "hdf")>>

Missing == [exists |-> FALSE, files |-> <<>>]
Dir(l) == [exists |-> TRUE, files |-> l]

\* "if not path in self.cache"
cache_miss_always(path) == TRUE

cache_miss(path) == ~cache[path].exists

IsHdf(name) == name.ext = "hdf"

\* IcareProvider.__ftp_listing_to_list__ on a cache miss: one FTP session is
\* opened; login, cwd and nlst may each fail, and only a completed listing is
\* stored.  net is what the network does to this session.
FtpOutcome(path, net) ==
    IF net = "login" THEN "LoginError"
    ELSE IF ~remote[path].exists THEN "Exception"
    ELSE IF net = "nlst" THEN "ListingError"
    ELSE "ok"

(***************************************************************************)
(* The state machine.  A provider instance is idle or has just completed a  *)
(* call whose inputs and outcome are on record.                             *)
(***************************************************************************)
FileNames == {Name(t, "hdf") : t \in Times}

\* A day listing: the files of that day in ascending order of timestamp.
Listing(T) == [k \in 1..Cardinality(T) |-> Name(SortedSeq(T)[k], "hdf")]

\* The archives: every day of the window has no listing, or a listing of
\* files of that day, at most MaxFiles files in all; at most one day has no
\* listing.
Archives ==
    {[k \in DayKeys |->
        LET d == CHOOSE x \in Days : DayKey(x) = k
        IN  IF d \in gone THEN Missing ELSE Dir(Listing(T \cap TimesOfDay(d)))] :
     <<T, gone>> \in {<<T, gone>> \in (SUBSET Times) \X (SUBSET Days) :
                        /\ Cardinality(T) <= MaxFiles
                        /\ Cardinality(gone) <= 1
                        /\ \A d \in gone : T \cap TimesOfDay(d) = {}}}

IcareIdle ==
    /\ remote = [p \in IcarePaths |-> Missing]
    /\ cache = [p \in IcarePaths |-> Missing]
    /\ trips = [p \in IcarePaths |-> 0]

Init ==
    /\ dirs \in Archives
    /\ pc = "idle" /\ op = "none" /\ arg = NoArg /\ res = NoRes
    /\ IcareIdle

Done(o, a, r) ==
    /\ pc' = "done" /\ op' = o /\ arg' = a /\ res' = r

GetPreceedingFile(f) ==
    /\ pc = "idle"
    /\ Done("preceeding", [NoArg EXCEPT !.f = f], get_preceeding_file(f))
    /\ UNCHANGED <<dirs, remote, cache, trips>>

GetFollowingFile(f) ==
    /\ pc = "idle"
    /\ Done("following", [NoArg EXCEPT !.f = f], get_following_file(f))
    /\ UNCHANGED <<dirs, remote, cache, trips>>

GetFilesInRange(t0, t1, t0_inclusive) ==
    /\ pc = "idle"
    /\ t0 < t1
    /\ Done("range", [NoArg EXCEPT !.t0 = t0, !.t1 = t1, !.inclusive = t0_inclusive],
            get_files_in_range(t0, t1, t0_inclusive))
    /\ UNCHANGED <<dirs, remote, cache, trips>>

GetFileByDate(t) ==
    /\ pc = "idle"
    /\ Done("by_date", [NoArg EXCEPT !.t0 = t], get_file_by_date(t))
    /\ UNCHANGED <<dirs, remote, cache, trips>>

\* The caller takes the outcome; the instance is ready for the next call.
Finish ==
    /\ pc = "done"
    /\ pc' = "idle" /\ op' = "none" /\ arg' = NoArg /\ res' = NoRes
    /\ UNCHANGED <<dirs, remote, cache, trips>>

\* A caller of an idle instance makes one of the four queries.
CallGetPreceedingFile == pc = "idle" /\ \E f \in FileNames : GetPreceedingFile(f)

CallGetFollowingFile == pc = "idle" /\ \E f \in FileNames : GetFollowingFile(f)

CallGetFilesInRange ==
    pc = "idle" /\ \E t0, t1 \in Times, i \in BOOLEAN : GetFilesInRange(t0, t1, i)

CallGetFileByDate == pc = "idle" /\ \E t \in Times : GetFileByDate(t)

Next ==
    \/ CallGetPreceedingFile
    \/ CallGetFollowingFile
    \/ CallGetFilesInRange
    \/ CallGetFileByDate
    \/ Finish

Spec == Init /\ [][Next]_vars

(***************************************************************************)
(* IcareProvider.get_files over a server whose directories change.          *)
(***************************************************************************)
InitIcare ==
    /\ dirs = [k \in DayKeys |-> Missing]
    /\ pc = "idle" /\ op = "none" /\ arg = NoArg /\ res = NoRes
    /\ IcareIdle

\* get_files with a day that strptime rejects: nothing is asked of the server.
IcareGetFilesBadDay(year, day) ==
    /\ pc = "idle"
    /\ ~ValidJulianDay(day)
    /\ Done("icare", [NoArg EXCEPT !.year = year, !.day = day], Raise("ValueError", <<>>))
    /\ UNCHANGED <<dirs, remote, cache, trips>>

\* get_files answered from self.cache
IcareGetFilesCached(year, day) ==
    LET path == Path(year, day)
    IN  /\ pc = "idle"
        /\ ValidJulianDay(day)
        /\ ~cache_miss(path)
        /\ Done("icare", [NoArg EXCEPT !.year = year, !.day = day],
                Return(SelectSeq(cache[path].files, IsHdf), <<>>))
        /\ UNCHANGED <<dirs, remote, cache, trips>>

\* get_files that goes to the server
IcareGetFilesRemote(year, day, net) ==
    LET path == Path(year, day)
        out == FtpOutcome(path, net)
    IN  /\ pc = "idle"
        /\ ValidJulianDay(day)
        /\ cache_miss(path)
        /\ trips[path] < MaxTrips
        /\ trips' = [trips EXCEPT ![path] = @ + 1]
        /\ cache' = IF out = "ok" THEN [cache EXCEPT ![path] = Dir(remote[path].files)]
                     ELSE cache
        /\ Done("icare", [NoArg EXCEPT !.year = year, !.day = day],
                IF out = "ok" THEN Return(SelectSeq(remote[path].files, IsHdf), <<path>>)
                ELSE Raise(out, <<path>>))
        /\ UNCHANGED <<dirs, remote>>

\* The server side: a directory appears, a file is uploaded.
RemoteCreate(p) ==
    /\ ~remote[p].exists
    /\ remote' = [remote EXCEPT ![p] = Dir(<<>>)]
    /\ UNCHANGED <<dirs, pc, op, arg, res, cache, trips>>

RemoteUpload(p) ==
    /\ remote[p].exists
    /\ Len(remote[p].files) < Len(Uploads(p))
    /\ remote' = [remote EXCEPT ![p] = Dir(Append(@.files, Uploads(p)[Len(@.files) + 1]))]
    /\ UNCHANGED <<dirs, pc, op, arg, res, cache, trips>>

\* A caller of an idle instance asks for the files of a day.
CallIcareGetFilesBadDay == pc = "idle" /\ \E k \in IcareKeys : IcareGetFilesBadDay(k[1], 0)

CallIcareGetFilesCached ==
    pc = "idle" /\ \E k \in IcareKeys : IcareGetFilesCached(k[1], k[2])

CallIcareGetFilesRemote ==
    pc = "idle" /\ \E k \in IcareKeys, net \in {"ok", "login", "nlst"} :
                      IcareGetFilesRemote(k[1], k[2], net)

NextIcare ==
    \/ CallIcareGetFilesBadDay
    \/ CallIcareGetFilesCached
    \/ CallIcareGetFilesRemote
    \/ \E p \in IcarePaths : RemoteCreate(p)
    \/ \E p \in IcarePaths : RemoteUpload(p)
    \/ Finish

SpecIcare == InitIcare /\ [][NextIcare]_vars

(***************************************************************************)
(* Properties.  The archive is read directly from dirs here, by absolute    *)
(* day, not through the queries under test.                                 *)
(***************************************************************************)
ListingOf(d) == IF DayKey(d) \in DOMAIN dirs THEN dirs[DayKey(d)] ELSE Missing
FilesOf(d) == ListingOf(d).files

RangeDone == pc = "done" /\ op = "range"
RangeOk == RangeDone /\ res.status = "ok"
Front == IF arg.inclusive THEN 1 ELSE 0
HasTrailing == Len(res.value) > Len(res.selected) + Front

\* The entries of the returned list between the prepended and the trailing one.
Middle == SubSeq(res.value, 1 + Front, Len(res.value) - (IF HasTrailing THEN 1 ELSE 0))

\* The day of the last iteration of the loop of get_files_in_range(t0, t1).
FinalDay(t0, t1) == DayOf(t0 + (((t1 - t0 - 1) \div dt) * dt))
LoopDays(t0, t1) == {DayOf(t0 + (k * dt)) : k \in 0..((t1 - t0 - 1) \div dt)}

\* C1 as stated: every entry of a returned list other than the prepended and
\* the trailing one has t0 <= ts < t1.
C1_HalfOpen ==
    RangeOk => \A i \in 1..Len(Middle) :
                  /\ arg.t0 <= name_to_date(Middle[i])
                  /\ name_to_date(Middle[i]) < arg.t1

\* C1 amended: every entry of a returned list other than the prepended and the
\* trailing one has t0 <= ts <= t1; a file that starts exactly at t1 is selected.
C1_Closed ==
    RangeOk => \A i \in 1..Len(Middle) :
                  /\ arg.t0 <= name_to_date(Middle[i])
                  /\ name_to_date(Middle[i]) <= arg.t1

C1_Witness ==
    /\ RangeOk
    /\ \E i \in 1..Len(Middle) : name_to_date(Middle[i]) = arg.t1

\* C2: a range query that returns lists every day that holds a file with
\* t0 <= ts < t1 and returns every such file.
C2_CoversPartialDay ==
    RangeOk => \A d \in Days : \A f \in Range(FilesOf(d)) :
                  (arg.t0 <= name_to_date(f) /\ name_to_date(f) < arg.t1)
                      => (DayKey(d) \in Range(res.calls) /\ f \in Range(res.value))

ByDateOk == pc = "done" /\ op = "by_date" /\ res.status = "ok"

\* The candidates of get_file_by_date(t): the last file of the previous day,
\* then the files of the day of t.
Candidates(t) == Range(LastOnly(FilesOf(DayOf(t) - 1))) \cup Range(FilesOf(DayOf(t)))
Latest(S) == CHOOSE f \in S : \A g \in S : name_to_date(g) <= name_to_date(f)

\* C3 as stated: the result is the latest candidate with ts <= t, and the
\* last candidate when there is none.
C3_AtOrBefore ==
    ByDateOk =>
        LET t == arg.t0
            early == {f \in Candidates(t) : name_to_date(f) <= t}
        IN  res.value = <<Latest(IF early = {} THEN Candidates(t) ELSE early)>>

\* C3 amended: the result is the latest candidate with ts < t, and the last
\* candidate when no candidate starts before t.
C3_StrictlyBefore ==
    ByDateOk =>
        LET t == arg.t0
            early == {f \in Candidates(t) : name_to_date(f) < t}
        IN  res.value = <<Latest(IF early = {} THEN Candidates(t) ELSE early)>>

C3_Witness ==
    /\ ByDateOk
    /\ \E f, g \in Candidates(arg.t0) :
          /\ name_to_date(f) = arg.t0
          /\ name_to_date(g) < arg.t0
          /\ res.value = <<g>>

FollowingOk == pc = "done" /\ op = "following" /\ res.status = "ok"

\* C4: when get_following_file(f) returns g, get_preceeding_file(g) returns f.
C4_RoundTrip ==
    FollowingOk => get_preceeding_file(res.value[1]) = Return(<<arg.f>>, get_preceeding_file(res.value[1]).calls)

C4_Witness ==
    /\ FollowingOk
    /\ DayOf(name_to_date(res.value[1])) = DayOf(name_to_date(arg.f)) + 1
    /\ get_preceeding_file(res.value[1]).value = <<arg.f>>

\* The position of a file in the listing of its own day (0: not listed).
Place(f) ==
    LET fs == FilesOf(DayOf(name_to_date(f)))
    IN  IF \E i \in 1..Len(fs) : fs[i] = f THEN CHOOSE i \in 1..Len(fs) : fs[i] = f ELSE 0

\* C5: inside a day the neighbour is the adjacent entry of the listing; at
\* the end of a day it is the first (last) entry of the very next (previous)
\* day, and the call fails when that day's listing is empty.
C5_Adjacent ==
    (pc = "done" /\ op \in {"following", "preceeding"} /\ Place(arg.f) > 0) =>
        LET d == DayOf(name_to_date(arg.f))
            fs == FilesOf(d)
            i == Place(arg.f)
            fwd == op = "following"
            inner == IF fwd THEN i < Len(fs) ELSE i > 1
            near == ListingOf(IF fwd THEN d + 1 ELSE d - 1)
        IN  /\ inner => /\ res.status = "ok"
                         /\ res.value = <<fs[IF fwd THEN i + 1 ELSE i - 1]>>
            /\ (~inner /\ near.exists /\ near.files /= <<>>) =>
                    /\ res.status = "ok"
                    /\ res.value = <<IF fwd THEN near.files[1] ELSE Last(near.files)>>
            /\ (~inner /\ near.exists /\ near.files = <<>>) => res.status = "IndexError"

C5_Witness ==
    /\ pc = "done" /\ op = "following" /\ Place(arg.f) = Len(FilesOf(DayOf(name_to_date(arg.f))))
    /\ Place(arg.f) > 0
    /\ ListingOf(DayOf(name_to_date(arg.f)) + 1) = Dir(<<>>)
    /\ FilesOf(DayOf(name_to_date(arg.f)) + 2) /= <<>>
    /\ res.status = "IndexError"

\* C6 as stated: whenever the non-inclusive query returns a non-empty list L,
\* the inclusive query returns get_preceeding_file(L[0]) followed by L.
C6_AlwaysPrepends ==
    (RangeDone /\ arg.inclusive) =>
        LET L == get_files_in_range(arg.t0, arg.t1, FALSE)
        IN  (L.status = "ok" /\ L.value /= <<>>) =>
                /\ res.status = "ok"
                /\ get_preceeding_file(L.value[1]).status = "ok"
                /\ res.value = get_preceeding_file(L.value[1]).value \o L.value

\* C6 amended: whenever the non-inclusive query returns a non-empty list L, the
\* inclusive query returns get_preceeding_file(L[0]) followed by L if that
\* lookup succeeds, and raises the lookup's error if it fails.
C6_PrependsOrRaises ==
    (RangeDone /\ arg.inclusive) =>
        LET L == get_files_in_range(arg.t0, arg.t1, FALSE)
            f_p == get_preceeding_file(L.value[1])
        IN  (L.status = "ok" /\ L.value /= <<>>) =>
                IF f_p.status = "ok"
                THEN res.status = "ok" /\ res.value = f_p.value \o L.value
                ELSE res.status = f_p.status

C6_Witness ==
    /\ RangeOk /\ arg.inclusive
    /\ Len(res.value) >= 2
    /\ Tail(res.value) = get_files_in_range(arg.t0, arg.t1, FALSE).value
    /\ name_to_date(res.value[1]) < arg.t0

\* No file of a listing visited by the loop starts inside [t0, t1].
NothingInWindow ==
    \A d \in LoopDays(arg.t0, arg.t1) :
        /\ ListingOf(d).exists
        /\ \A f \in Range(FilesOf(d)) : name_to_date(f) < arg.t0 \/ name_to_date(f) > arg.t1

\* C8: a range query whose listings all succeed and hold no file in the
\* window returns the empty list.
C8_EmptyIsNoError ==
    (RangeDone /\ NothingInWindow) => (res.status = "ok" /\ res.value = <<>>)

\* C9 as stated: the trailing file is looked up for appending exactly when the
\* list is not empty and the final day holds an entry at or after t1.
C9_FlagAfter ==
    RangeOk =>
        ((res.trailing /= "none") <=>
            /\ res.selected /= <<>>
            /\ \E f \in Range(FilesOf(FinalDay(arg.t0, arg.t1))) : name_to_date(f) >= arg.t1)

\* C9 amended: the trailing lookup is made exactly when the list is not empty
\* and the last entry of the final day starts at or before t1, and its file
\* is appended when the lookup succeeds; when the last entry of the final day
\* starts after t1 nothing is appended.
C9_FlagNotAfter ==
    RangeOk =>
        LET fs == FilesOf(FinalDay(arg.t0, arg.t1))
            due == res.selected /= <<>> /\ fs /= <<>> /\ name_to_date(Last(fs)) <= arg.t1
            f_n == get_following_file(Last(res.selected))
        IN  /\ HasTrailing <=> (due /\ f_n.status = "ok")
            /\ HasTrailing => Last(res.value) = f_n.value[1]
            /\ (res.trailing /= "none") <=> due

C9_Witness ==
    /\ RangeOk /\ HasTrailing
    /\ name_to_date(Last(FilesOf(FinalDay(arg.t0, arg.t1)))) <= arg.t1
    /\ name_to_date(Last(res.value)) > arg.t1

\* The files of the listings visited by the loop that start inside [t0, t1],
\* in ascending order.
InWindow(t0, t1) ==
    Listing({name_to_date(f) : f \in UNION {Range(FilesOf(d)) : d \in LoopDays(t0, t1)}}
                \cap (t0..t1))

\* C10: a failed trailing lookup leaves the list as it was and raises
\* nothing; a failed listing in the loop or in the preceding-file lookup
\* ends the query with that error, the failed listing being the last one
\* requested.
C10_OnlyTrailingSwallowed ==
    RangeDone =>
        LET days == LoopDays(arg.t0, arg.t1)
            lost == {d \in days : ~ListingOf(d).exists}
            first == CHOOSE d \in lost : \A e \in lost : d <= e
            loopcalls == [k \in 1..Cardinality(days) |-> DayKey(DayOf(arg.t0) + k - 1)]
            sel == InWindow(arg.t0, arg.t1)
            f_p == get_preceeding_file(sel[1])
            f_n == get_following_file(Last(sel))
            fs == FilesOf(FinalDay(arg.t0, arg.t1))
        IN  /\ lost /= {} =>
                /\ res.status = "ListingError"
                /\ res.calls = SubSeq(loopcalls, 1, first - DayOf(arg.t0) + 1)
            /\ (lost = {} /\ arg.inclusive /\ sel /= <<>> /\ f_p.status /= "ok") =>
                /\ res.status = f_p.status
                /\ res.calls = loopcalls \o f_p.calls
            /\ (lost = {} /\ sel /= <<>> /\ (arg.inclusive => f_p.status = "ok")
                  /\ fs /= <<>> /\ name_to_date(Last(fs)) <= arg.t1
                  /\ f_n.status /= "ok") =>
                /\ res.status = "ok"
                /\ res.value = (IF arg.inclusive THEN f_p.value ELSE <<>>) \o sel
                /\ res.trailing = "swallowed"

C10_Witness ==
    /\ RangeOk /\ res.trailing = "swallowed"
    /\ res.value /= <<>>
    /\ get_following_file(Last(res.value)).status = "IndexError"

(***************************************************************************)
(* Properties of the listing cache (SpecIcare).                             *)
(***************************************************************************)
\* C7 as stated: no path is asked of the server more than once.
C7_AtMostOneTrip == \A p \in IcarePaths : trips[p] <= 1

Cached(p) == cache[p].exists

\* C7 amended: a path whose listing has been retrieved is never asked of the
\* server again and its stored listing never changes; a call for it returns
\* the stored listing's hdf files, whatever the server holds by then.  A
\* failed attempt stores nothing and the next call asks again.
C7_ListedOnce ==
    /\ [][\A p \in IcarePaths :
             Cached(p) => (trips'[p] = trips[p] /\ cache'[p] = cache[p])]_vars
    /\ [](\A p \in IcarePaths : Cached(p) => trips[p] >= 1)
    /\ []((pc = "done" /\ op = "icare" /\ res.status = "ok") =>
             /\ Cached(Path(arg.year, arg.day))
             /\ res.value = SelectSeq(cache[Path(arg.year, arg.day)].files, IsHdf))

C7_Witness ==
    /\ pc = "done" /\ op = "icare" /\ res.status = "ok" /\ res.calls = <<>>
    /\ remote[Path(arg.year, arg.day)] /= cache[Path(arg.year, arg.day)]
    /\ trips[Path(arg.year, arg.day)] = 1

====
